---- MODULE Spec2Model ----
(***************************************************************************)
(* A model of the Excel profitability analyzer: analyzer.py (header        *)
(* location, table loading, aggregation, report) and app.py (the upload    *)
(* handler and its temporary files).                                       *)
(*                                                                         *)
(* Text.  A text is a tuple of characters, each character a string.  The   *)
(* Cyrillic letters of the source are written in Latin transliteration,    *)
(* one string per letter: "a" "r" "t" "i" "k" "u" "l" is 'артикул', "yo"   *)
(* is the letter 'ё', "YO" its capital, "ch" is 'ч', "ya" is 'я', "ts" is  *)
(* 'ц'.  An empty spreadsheet cell (pandas NaN) is the empty tuple.        *)
(*                                                                         *)
(* Numbers.  An optional number is a tuple of length 0 (NaN) or 1.  Money  *)
(* in the report is held as an integer multiple of 1/Scale, so that the    *)
(* mean of up to MaxRows purchase prices is exact; float32 rounding of the *)
(* source is not modelled.                                                 *)
(***************************************************************************)
EXTENDS Integers, Sequences, FiniteSets, TLC

VARIABLES
    \* analyze_files: the three loaded tables, the aggregates, the report
    phase, orders_df, revenue_df, cost_df, agg, report_df,
    \* read_excel_with_dynamic_header and the column resolution of analyze_files
    lphase, kind, df_raw, header_row, df, load_error, used_positional,
    \* index(): two requests in flight over one upload folder
    pc, form, fs, input, idx

vars == <<phase, orders_df, revenue_df, cost_df, agg, report_df,
          lphase, kind, df_raw, header_row, df, load_error, used_positional,
          pc, form, fs, input, idx>>

aggVars == <<phase, orders_df, revenue_df, cost_df, agg, report_df>>
loadVars == <<lphase, kind, df_raw, header_row, df, load_error, used_positional>>
webVars == <<pc, form, fs, input, idx>>

-----------------------------------------------------------------------------
(* Bounds *)

\* the three tables handed to the aggregation hold at most MaxRows rows together
MaxRows == 3

\* a spreadsheet handed to the loader has at most MaxSheetRows rows
MaxSheetRows == 3

\* ... and NumCols columns
NumCols == 2

-----------------------------------------------------------------------------
(* Text primitives: str.lower, str.replace, str.strip, the `in` operator *)

NaN == <<>>

IsNa(cell) == cell = NaN

LowerChar(c) ==
    CASE c = "A" -> "a"
      [] c = "S" -> "s"
      [] c = "D" -> "d"
      [] c = "O" -> "o"
      [] c = "Z" -> "z"
      [] c = "YO" -> "yo"
      [] c = "X" -> "x"
      [] c = "L" -> "l"
      [] OTHER -> c

Lower(s) == [i \in DOMAIN s |-> LowerChar(s[i])]

Replace(s, old, new) == [i \in DOMAIN s |-> IF s[i] = old THEN new ELSE s[i]]

Contains(s, pat) ==
    \E i \in 1..(Len(s) - Len(pat) + 1) : SubSeq(s, i, i + Len(pat) - 1) = pat

RECURSIVE LStrip(_)
LStrip(s) == IF s # <<>> /\ Head(s) = " " THEN LStrip(Tail(s)) ELSE s

RECURSIVE RStrip(_)
RStrip(s) ==
    IF s # <<>> /\ s[Len(s)] = " " THEN RStrip(SubSeq(s, 1, Len(s) - 1)) ELSE s

Strip(s) == RStrip(LStrip(s))

\* str(cell): the text of a cell; a missing cell prints as 'nan'
Str(cell) == IF IsNa(cell) THEN <<"n", "a", "n">> ELSE cell

-----------------------------------------------------------------------------
(* Sequence helpers *)

RECURSIVE SumSeq(_)
SumSeq(s) == IF s = <<>> THEN 0 ELSE Head(s) + SumSeq(Tail(s))

RECURSIVE Unique(_)
\* pandas unique(): distinct values in order of first appearance
Unique(s) ==
    IF s = <<>> THEN <<>>
    ELSE LET rest == Unique(SubSeq(s, 1, Len(s) - 1))
             x == s[Len(s)]
         IN IF \E i \in DOMAIN rest : rest[i] = x THEN rest ELSE Append(rest, x)

DropNa(s) == SelectSeq(s, LAMBDA x : ~IsNa(x))

Column(t, c) == [i \in DOMAIN t |-> t[i][c]]

RECURSIVE Gcd(_, _)
Gcd(a, b) == IF b = 0 THEN a ELSE Gcd(b, a % b)

RECURSIVE LcmUpTo(_)
LcmUpTo(n) == IF n <= 1 THEN 1 ELSE LET l == LcmUpTo(n - 1) IN (l * n) \div Gcd(l, n)

\* money is held in units of 1/Scale
Scale == LcmUpTo(MaxRows)

SeqsUpTo(S, n) == UNION {[1..k -> S] : k \in 0..n}

Range(s) == {s[i] : i \in DOMAIN s}

-----------------------------------------------------------------------------
(* Inputs of the aggregation: the tables as they stand at analyzer.py:174 *)

ArtA == <<"A">>
ArtAPadded == <<"A", " ">>
ArtB == <<"B">>

Articles == {ArtA, ArtAPadded, ArtB}

\* 'Доставлен', 'Отменён ', 'доставлен, отменен', and an empty status cell
StDelivered == <<"D", "o", "s", "t", "a", "v", "l", "e", "n">>
StCancelled == <<"O", "t", "m", "e", "n", "yo", "n", " ">>
StBoth == <<"d", "o", "s", "t", "a", "v", "l", "e", "n", ",", " ", "o", "t", "m", "e", "n", "e", "n">>

Statuses == {StDelivered, StCancelled, StBoth, NaN}

Amounts == {1, 2}

OrderRows == [artikul : Articles \cup {NaN}, status : Statuses]
RevenueRows == [artikul : Articles, summa : Amounts]
CostRows == [artikul : Articles, tsena : Amounts]

-----------------------------------------------------------------------------
(* analyze_files, part 4: classification, grouping, join, profit, total *)

MarkDelivered == <<"d", "o", "s", "t", "a", "v", "l", "e", "n">>
MarkCancelled == <<"o", "t", "m", "e", "n">>

\* .astype(str).str.lower().str.replace('ё', 'е')
NormStatus(cell) == Replace(Lower(Str(cell)), "yo", "e")

\* orders_df[orders_df['статус'].str.contains(marker)].groupby('артикул').size():
\* a series over the identifiers that have a matching row; NaN keys are dropped
GroupSize(t, marker) ==
    LET hits == {i \in DOMAIN t : Contains(t[i].status, marker) /\ ~IsNa(t[i].artikul)}
    IN [a \in {t[i].artikul : i \in hits} |-> Cardinality({i \in hits : t[i].artikul = a})]

\* AllArticles with the dropna() forgotten
AllArticlesKeepNa(t) == Unique(Column(t, "artikul"))

\* pd.Index(orders_df['артикул'].dropna().unique())
AllArticles(t) == Unique(DropNa(Column(t, "artikul")))

\* series.reindex(index, fill_value=fill)
Reindex(series, index, fill) ==
    [a \in Range(index) |-> IF a \in DOMAIN series THEN series[a] ELSE fill]

\* groupby('артикул')[col].sum()
GroupSum(t, col) ==
    [a \in {t[i].artikul : i \in DOMAIN t} |->
        Scale * SumSeq(Column(SelectSeq(t, LAMBDA row : row.artikul = a), col))]

\* GroupMean with sum() in place of mean()
GroupMeanAsSum(t, col) ==
    [a \in {t[i].artikul : i \in DOMAIN t} |->
        Scale * SumSeq(Column(SelectSeq(t, LAMBDA row : row.artikul = a), col))]

\* groupby('артикул')[col].mean()
GroupMean(t, col) ==
    [a \in {t[i].artikul : i \in DOMAIN t} |->
        LET rows == SelectSeq(t, LAMBDA row : row.artikul = a)
        IN (Scale * SumSeq(Column(rows, col))) \div Len(rows)]

\* the value a left join gives the row a: the series' value, or NaN
JoinLeft(series, a) == IF a \in DOMAIN series THEN <<series[a]>> ELSE NaN

FillNa(opt, fill) == IF IsNa(opt) THEN fill ELSE opt[1]

\* ReportRow with fillna(0) applied after the second join instead of the first
ReportRowFillAfterBothJoins(g, a) ==
    LET revenue == FillNa(JoinLeft(g.revenue_sum, a), 0)
        cost == FillNa(JoinLeft(g.cost_avg, a), 0)
    IN [label |-> a,
        delivered |-> g.delivered[a],
        cancelled |-> g.cancelled[a],
        revenue |-> revenue,
        cost |-> <<cost>>,
        profit |-> revenue - g.delivered[a] * cost]

\* one identifier row of report_df after the two joins and the profit column
ReportRow(g, a) ==
    LET revenue == FillNa(JoinLeft(g.revenue_sum, a), 0)
        cost == JoinLeft(g.cost_avg, a)
    IN [label |-> a,
        delivered |-> g.delivered[a],
        cancelled |-> g.cancelled[a],
        revenue |-> revenue,
        cost |-> cost,
        profit |-> revenue - g.delivered[a] * FillNa(cost, 0)]

LabelTotal == <<"Itogo">>

\* TotalRow with the unit-cost column summed like the others
TotalRowSummingCost(rows) ==
    [label |-> LabelTotal,
     delivered |-> SumSeq(Column(rows, "delivered")),
     cancelled |-> SumSeq(Column(rows, "cancelled")),
     revenue |-> SumSeq(Column(rows, "revenue")),
     cost |-> <<SumSeq([i \in DOMAIN rows |-> FillNa(rows[i].cost, 0)])>>,
     profit |-> SumSeq(Column(rows, "profit"))]

TotalRow(rows) ==
    [label |-> LabelTotal,
     delivered |-> SumSeq(Column(rows, "delivered")),
     cancelled |-> SumSeq(Column(rows, "cancelled")),
     revenue |-> SumSeq(Column(rows, "revenue")),
     cost |-> NaN,
     profit |-> SumSeq(Column(rows, "profit"))]

NoAgg == [all_articles |-> <<>>, delivered |-> <<>>, cancelled |-> <<>>,
          revenue_sum |-> <<>>, cost_avg |-> <<>>]

\* line 176
ClassifyStatuses ==
    /\ phase = "loaded"
    /\ orders_df' = [i \in DOMAIN orders_df |->
                        [orders_df[i] EXCEPT !.status = NormStatus(@)]]
    /\ phase' = "classified"
    /\ UNCHANGED <<revenue_df, cost_df, agg, report_df>>
    /\ UNCHANGED <<loadVars, webVars>>

\* lines 179-188
Aggregate ==
    /\ phase = "classified"
    /\ LET all_articles == AllArticles(orders_df)
       IN agg' = [all_articles |-> all_articles,
                  delivered |-> Reindex(GroupSize(orders_df, MarkDelivered), all_articles, 0),
                  cancelled |-> Reindex(GroupSize(orders_df, MarkCancelled), all_articles, 0),
                  revenue_sum |-> GroupSum(revenue_df, "summa"),
                  cost_avg |-> GroupMean(cost_df, "tsena")]
    /\ phase' = "aggregated"
    /\ UNCHANGED <<orders_df, revenue_df, cost_df, report_df>>
    /\ UNCHANGED <<loadVars, webVars>>

\* lines 191-201
BuildReport ==
    /\ phase = "aggregated"
    /\ report_df' = [i \in DOMAIN agg.all_articles |-> ReportRow(agg, agg.all_articles[i])]
    /\ phase' = "joined"
    /\ UNCHANGED <<orders_df, revenue_df, cost_df, agg>>
    /\ UNCHANGED <<loadVars, webVars>>

\* lines 203-213
AppendTotal ==
    /\ phase = "joined"
    /\ report_df' = Append(report_df, TotalRow(report_df))
    /\ phase' = "done"
    /\ UNCHANGED <<orders_df, revenue_df, cost_df, agg>>
    /\ UNCHANGED <<loadVars, webVars>>

Requests == {"r1", "r2"}
Slots == <<"file_orders", "file_revenue", "file_costs">>

LoadIdle ==
    /\ lphase = "idle" /\ kind = "none" /\ df_raw = <<>> /\ header_row = NaN
    /\ df = [columns |-> <<>>, rows |-> <<>>] /\ load_error = <<>> /\ used_positional = FALSE

WebIdle ==
    /\ pc = [r \in Requests |-> "idle"]
    /\ form = [r \in Requests |-> <<>>]
    /\ fs = <<>>
    /\ input = [r \in Requests |-> <<>>]
    /\ idx = [r \in Requests |-> 0]

AggIdle ==
    /\ phase = "idle" /\ orders_df = <<>> /\ revenue_df = <<>> /\ cost_df = <<>>
    /\ agg = NoAgg /\ report_df = <<>>

Init ==
    /\ phase = "loaded"
    /\ \E o \in SeqsUpTo(OrderRows, MaxRows) :
         \E r \in SeqsUpTo(RevenueRows, MaxRows - Len(o)) :
           \E c \in SeqsUpTo(CostRows, MaxRows - Len(o) - Len(r)) :
             orders_df = o /\ revenue_df = r /\ cost_df = c
    /\ agg = NoAgg
    /\ report_df = <<>>
    /\ LoadIdle
    /\ WebIdle

Next == ClassifyStatuses \/ Aggregate \/ BuildReport \/ AppendTotal

Spec == Init /\ [][Next]_vars

-----------------------------------------------------------------------------
(* Properties of the report (specification Spec) *)

\* the rows of the finished report but the last
IdRows == SubSeq(report_df, 1, Len(report_df) - 1)

LastRow == report_df[Len(report_df)]

OrderArts == {orders_df[i].artikul : i \in DOMAIN orders_df} \ {NaN}

RowsOf(t, a) == {i \in DOMAIN t : t[i].artikul = a}

RECURSIVE SumOver(_, _, _)
SumOver(t, col, rows) ==
    IF rows = {} THEN 0
    ELSE LET i == CHOOSE j \in rows : TRUE
         IN t[i][col] + SumOver(t, col, rows \ {i})

\* C1: the identifier rows of the report are exactly the distinct non-missing
\* identifiers of the orders table, each once; an identifier seen only in the
\* revenue or only in the costs table is no row.
C1_UniverseIsOrders ==
    phase = "done" =>
        /\ {IdRows[i].label : i \in DOMAIN IdRows} = OrderArts
        /\ \A i, j \in DOMAIN IdRows : IdRows[i].label = IdRows[j].label => i = j

C1_Witness ==
    /\ phase = "done"
    /\ OrderArts # {}
    /\ \E i \in DOMAIN revenue_df : revenue_df[i].artikul \notin OrderArts
    /\ \E i \in DOMAIN cost_df : cost_df[i].artikul \notin OrderArts

\* C2: delivered, cancelled and other rows partition the order rows of every
\* identifier of the report: delivered + cancelled + other = all its rows,
\* whatever the status text.
C2_Partition ==
    phase = "done" =>
        \A i \in DOMAIN IdRows :
            LET a == IdRows[i].label
                other == {k \in RowsOf(orders_df, a) :
                             /\ ~Contains(orders_df[k].status, MarkDelivered)
                             /\ ~Contains(orders_df[k].status, MarkCancelled)}
            IN IdRows[i].delivered + IdRows[i].cancelled + Cardinality(other)
                   = Cardinality(RowsOf(orders_df, a))

\* C3: the report ends with the one total row: it is labelled as the total, its
\* delivered, cancelled, revenue and profit are the column sums over the rows
\* before it, and its unit cost is missing.
C3_TotalRow ==
    phase = "done" =>
        /\ Len(report_df) >= 1
        /\ {i \in DOMAIN report_df : report_df[i].label = LabelTotal} = {Len(report_df)}
        /\ LastRow.delivered = SumOver(IdRows, "delivered", DOMAIN IdRows)
        /\ LastRow.cancelled = SumOver(IdRows, "cancelled", DOMAIN IdRows)
        /\ LastRow.revenue = SumOver(IdRows, "revenue", DOMAIN IdRows)
        /\ LastRow.profit = SumOver(IdRows, "profit", DOMAIN IdRows)
        /\ IsNa(LastRow.cost)

C3_Witness ==
    /\ phase = "done"
    /\ Len(report_df) >= 3
    /\ LastRow.revenue > 0
    /\ LastRow.delivered >= 1

\* C4: an identifier of the orders table with no row in the costs table has its
\* unit cost shown as missing and its profit equal to its revenue total.
C4_NoCostRows ==
    phase = "done" =>
        \A i \in DOMAIN IdRows :
            LET a == IdRows[i].label IN
            RowsOf(cost_df, a) = {} =>
                /\ IsNa(IdRows[i].cost)
                /\ IdRows[i].profit = Scale * SumOver(revenue_df, "summa", RowsOf(revenue_df, a))

C4_Witness ==
    /\ phase = "done"
    /\ \E i \in DOMAIN IdRows :
          /\ RowsOf(cost_df, IdRows[i].label) = {}
          /\ RowsOf(revenue_df, IdRows[i].label) # {}
          /\ IdRows[i].delivered >= 1
    /\ cost_df # <<>>

\* C5: an identifier of the orders table with no row in the revenue table has
\* revenue 0 and profit -(delivered * unit cost), the unit cost being the mean
\* of its cost rows (0 in the formula when it has none); with revenue rows its
\* revenue is their sum.
C5_NoRevenueRows ==
    phase = "done" =>
        \A i \in DOMAIN IdRows :
            LET a == IdRows[i].label
                rev == RowsOf(revenue_df, a)
                cst == RowsOf(cost_df, a)
            IN /\ rev = {} =>
                    /\ IdRows[i].revenue = 0
                    /\ IdRows[i].profit * Cardinality(cst)
                          = 0 - IdRows[i].delivered * Scale * SumOver(cost_df, "tsena", cst)
                    /\ cst = {} => IdRows[i].profit = 0
               /\ cst # {} =>
                    /\ ~IsNa(IdRows[i].cost)
                    /\ IdRows[i].cost[1] * Cardinality(cst) = Scale * SumOver(cost_df, "tsena", cst)
               /\ rev # {} => IdRows[i].revenue = Scale * SumOver(revenue_df, "summa", rev)

C5_Witness ==
    /\ phase = "done"
    /\ \E i \in DOMAIN IdRows :
          /\ RowsOf(revenue_df, IdRows[i].label) = {}
          /\ IdRows[i].delivered >= 1
          /\ \E j, k \in RowsOf(cost_df, IdRows[i].label) : cost_df[j].tsena # cost_df[k].tsena

\* convert to text, trim surrounding whitespace
NormId(cell) == Strip(Str(cell))

\* C9: identifiers are joined as normalized text: every report row's revenue is
\* the sum of the revenue rows, and its unit cost the mean of the cost rows,
\* whose identifier equals the row's after normalization, and no two report rows
\* have identifiers equal after normalization.
C9_NormalizedJoin ==
    phase = "done" =>
        /\ \A i \in DOMAIN IdRows :
             LET rev == {k \in DOMAIN revenue_df :
                            NormId(revenue_df[k].artikul) = NormId(IdRows[i].label)}
                 cst == {k \in DOMAIN cost_df :
                            NormId(cost_df[k].artikul) = NormId(IdRows[i].label)}
             IN /\ IdRows[i].revenue = Scale * SumOver(revenue_df, "summa", rev)
                /\ cst # {} =>
                     /\ ~IsNa(IdRows[i].cost)
                     /\ IdRows[i].cost[1] * Cardinality(cst)
                           = Scale * SumOver(cost_df, "tsena", cst)
        /\ \A i, j \in DOMAIN IdRows :
             NormId(IdRows[i].label) = NormId(IdRows[j].label) => i = j

-----------------------------------------------------------------------------
(* find_header_row, read_excel_with_dynamic_header and the column          *)
(* resolution of analyze_files (specification SpecLoad)                    *)

Min(S) == CHOOSE x \in S : \A y \in S : x <= y

\* 'артикул', 'статус', 'закупочная цена', 'закупоч', 'цена', 'сумма', 'итого'
TokArtikul == <<"a", "r", "t", "i", "k", "u", "l">>
TokStatus == <<"s", "t", "a", "t", "u", "s">>
TokZakupochnayaTsena ==
    <<"z", "a", "k", "u", "p", "o", "ch", "n", "a", "ya", " ", "ts", "e", "n", "a">>
TokZakupoch == <<"z", "a", "k", "u", "p", "o", "ch">>
TokTsena == <<"ts", "e", "n", "a">>
TokSumma == <<"s", "u", "m", "m", "a">>
TokItogo == <<"i", "t", "o", "g", "o">>
ColRevenue == <<"s", "u", "m", "m", "a", " ", "i", "t", "o", "g", "o", ",", " ", "r", "u", "b", ".">>

\* header cells as exports write them: 'Артикул', 'Статус ', 'Артикул/Статус',
\* 'Закупочная цена', 'Сумма итого', 'qty', and a data cell 'x1'
CellArtikul == <<"A", "r", "t", "i", "k", "u", "l">>
CellStatus == <<"S", "t", "a", "t", "u", "s", " ">>
CellBoth == <<"A", "r", "t", "i", "k", "u", "l", "/", "S", "t", "a", "t", "u", "s">>
CellCost == <<"Z", "a", "k", "u", "p", "o", "ch", "n", "a", "ya", " ", "ts", "e", "n", "a">>
CellSum == <<"S", "u", "m", "m", "a", " ", "i", "t", "o", "g", "o">>
CellQty == <<"q", "t", "y">>
CellData == <<"x", "1">>

Kinds == {"orders", "revenue", "costs"}

CellsOf(k) ==
    CASE k = "orders" -> {NaN, CellArtikul, CellStatus, CellBoth, CellData}
      [] k = "revenue" -> {CellArtikul, CellSum, CellQty, CellData}
      [] k = "costs" -> {CellArtikul, CellCost, CellQty, CellData}

\* analyze_files: required_cols of the two dynamic loads (lines 96, 154)
RequiredCols(k) ==
    CASE k = "orders" -> <<TokArtikul, TokStatus>>
      [] k = "costs" -> <<TokArtikul, TokZakupochnayaTsena>>
      [] OTHER -> <<>>

\* max_search=10 (lines 97, 155); the fallback scans 5 rows (line 53);
\* the revenue header is row 1 (line 132)
MaxSearch == 10
FallbackRows == 5
RevenueHeader == 1

\* str(cell).lower().strip()
NormCell(cell) == Strip(Lower(Str(cell)))

RECURSIVE JoinSpace(_)
\* ' '.join(texts)
JoinSpace(texts) ==
    IF texts = <<>> THEN <<>>
    ELSE IF Len(texts) = 1 THEN texts[1]
    ELSE texts[1] \o <<" ">> \o JoinSpace(Tail(texts))

\* line 17
RowStr(row) ==
    JoinSpace([i \in DOMAIN DropNa(row) |-> NormCell(DropNa(row)[i])])

\* find_header_row: the 0-based index of the first of the first max_rows rows
\* whose row_str contains every target, or None
FindHeader(raw, target_columns, max_rows) ==
    LET n == IF Len(raw) < max_rows THEN Len(raw) ELSE max_rows
        hits == {i \in 1..n :
                    \A j \in DOMAIN target_columns :
                        Contains(RowStr(raw[i]), Lower(target_columns[j]))}
    IN IF hits = {} THEN NaN ELSE <<Min(hits) - 1>>

\* str(n) of a small number
Digit(n) == CASE n = 0 -> "0" [] n = 1 -> "1" [] n = 2 -> "2" [] n = 3 -> "3" [] OTHER -> "9"

\* 'Unnamed: c', the name pandas gives a column with an empty header cell
Unnamed(c) == <<"U", "n", "n", "a", "m", "e", "d", ":", " ", Digit(c)>>

\* pandas renames a repeated header name x to x.1, x.2, ...
Mangle(names) ==
    [c \in DOMAIN names |->
        LET before == Cardinality({b \in 1..(c - 1) : names[b] = names[c]})
        IN IF before = 0 THEN names[c] ELSE names[c] \o <<".", Digit(before)>>]

\* pd.read_excel(file_path, header=h), then the columns lower-cased and
\* stripped (lines 79-82): the rows after row h, named by row h
ReadExcelHeader(raw, h) ==
    LET names == Mangle([c \in 1..NumCols |->
                            IF IsNa(raw[h + 1][c]) THEN Unnamed(c - 1) ELSE raw[h + 1][c]])
    IN [columns |-> [c \in 1..NumCols |-> NormCell(names[c])],
        rows |-> [i \in 1..(Len(raw) - h - 1) |->
                     [src |-> h + i, cells |-> raw[h + 1 + i]]]]

RECURSIVE ScanCells(_, _, _)
\* lines 50-63: column_mapping after the first k cells, taken row by row, of
\* the scanned rows; a later cell overwrites an earlier entry
ScanCells(raw, required_cols, k) ==
    IF k = 0 THEN <<>>
    ELSE LET m == ScanCells(raw, required_cols, k - 1)
             r == ((k - 1) \div NumCols) + 1
             c == (k - 1) % NumCols
             cell == raw[r][c + 1]
             hits == {j \in DOMAIN required_cols :
                         Contains(NormCell(cell), required_cols[j])}
         IN IF IsNa(cell) \/ hits = {} THEN m
            ELSE LET target == required_cols[Min(hits)]
                 IN [t \in DOMAIN m \cup {target} |-> IF t = target THEN c ELSE m[t]]

ColumnMapping(raw, required_cols) ==
    LET n == IF Len(raw) < FallbackRows THEN Len(raw) ELSE FallbackRows
    IN ScanCells(raw, required_cols, n * NumCols)

\* df[[...]] with the columns renamed: the cells at the 1-based positions
SelectCols(t, positions, names) ==
    [columns |-> names,
     rows |-> [i \in DOMAIN t.rows |->
                  [src |-> t.rows[i].src,
                   cells |-> [c \in DOMAIN positions |-> t.rows[i].cells[positions[c]]]]]]

NoDf == [columns |-> <<>>, rows |-> <<>>]

\* KeyError(f"Не удалось найти столбцы: {missing}") and pandas' own
\* KeyError("[...] not in index"): the message names the missing columns only
KeyError(missing) == <<[type |-> "KeyError", missing |-> missing]>>

\* pandas cannot take row 1 as the header of a sheet of fewer than two rows
ReadError == <<[type |-> "Exception"]>>

\* line 42
FindHeaderRow ==
    /\ lphase = "start"
    /\ kind \in {"orders", "costs"}
    /\ header_row' = FindHeader(df_raw, RequiredCols(kind), MaxSearch)
    /\ lphase' = "searched"
    /\ UNCHANGED <<kind, df_raw, df, load_error, used_positional>>
    /\ UNCHANGED <<aggVars, webVars>>

\* lines 77-84
ReadWithHeader ==
    /\ lphase = "searched"
    /\ ~IsNa(header_row)
    /\ df' = ReadExcelHeader(df_raw, header_row[1])
    /\ lphase' = "read"
    /\ UNCHANGED <<kind, df_raw, header_row, load_error, used_positional>>
    /\ UNCHANGED <<aggVars, webVars>>

\* lines 44-76: header=None keeps every row; the drop of line 73 is guarded by
\* header_row is not None, which is false on this branch
ReadFallback ==
    /\ lphase = "searched"
    /\ IsNa(header_row)
    /\ LET required_cols == RequiredCols(kind)
           column_mapping == ColumnMapping(df_raw, required_cols)
           all == [columns |-> [c \in 1..NumCols |-> <<Digit(c - 1)>>],
                   rows |-> [i \in DOMAIN df_raw |-> [src |-> i - 1, cells |-> df_raw[i]]]]
       IN IF Cardinality(DOMAIN column_mapping) = Len(required_cols)
          THEN /\ df' = SelectCols(all,
                           [j \in DOMAIN required_cols |-> column_mapping[required_cols[j]] + 1],
                           required_cols)
               /\ lphase' = "read"
               /\ UNCHANGED load_error
          ELSE /\ load_error' = KeyError(SelectSeq(required_cols,
                                     LAMBDA col : col \notin DOMAIN column_mapping))
               /\ lphase' = "done"
               /\ UNCHANGED df
    /\ UNCHANGED <<kind, df_raw, header_row, used_positional>>
    /\ UNCHANGED <<aggVars, webVars>>

\* the 1-based positions of the columns whose lower-cased name contains token
ColsWith(columns, token) == {c \in DOMAIN columns : Contains(Lower(columns[c]), token)}

Max(S) == CHOOSE x \in S : \A y \in S : x >= y

\* lines 101-124: the last column naming 'артикул', the last other column
\* naming 'статус'; failing either, the first two columns
ResolveOrders ==
    /\ lphase = "read"
    /\ kind = "orders"
    /\ LET art == ColsWith(df.columns, TokArtikul)
           st == ColsWith(df.columns, TokStatus) \ art
       IN IF art = {} \/ st = {}
          THEN /\ df' = [df EXCEPT !.columns = [@ EXCEPT ![1] = TokArtikul, ![2] = TokStatus]]
               /\ used_positional' = TRUE
          ELSE /\ df' = [df EXCEPT !.columns =
                            [@ EXCEPT ![Max(art)] = TokArtikul, ![Max(st)] = TokStatus]]
               /\ UNCHANGED used_positional
    /\ lphase' = "done"
    /\ UNCHANGED <<kind, df_raw, header_row, load_error>>
    /\ UNCHANGED <<aggVars, webVars>>

\* line 132-133: pd.read_excel(file_revenue, header=1)
ReadRevenue ==
    /\ lphase = "start"
    /\ kind = "revenue"
    /\ IF Len(df_raw) > RevenueHeader
       THEN /\ df' = ReadExcelHeader(df_raw, RevenueHeader)
            /\ lphase' = "read"
            /\ UNCHANGED load_error
       ELSE /\ load_error' = ReadError
            /\ lphase' = "done"
            /\ UNCHANGED df
    /\ UNCHANGED <<kind, df_raw, header_row, used_positional>>
    /\ UNCHANGED <<aggVars, webVars>>

\* df[['артикул', col]] renamed, or pandas' KeyError when no column is named
\* exactly 'артикул'
SelectArtikulAnd(t, c, name) ==
    LET art == {a \in DOMAIN t.columns : t.columns[a] = TokArtikul}
    IN IF art = {} THEN [error |-> KeyError(<<TokArtikul>>), df |-> NoDf]
       ELSE [error |-> <<>>, df |-> SelectCols(t, <<Min(art), c>>, <<TokArtikul, name>>)]

\* lines 135-148: the first column naming both 'сумма' and 'итого', or the
\* first two columns
ResolveRevenue ==
    /\ lphase = "read"
    /\ kind = "revenue"
    /\ LET found == ColsWith(df.columns, TokSumma) \cap ColsWith(df.columns, TokItogo)
       IN IF found # {}
          THEN LET got == SelectArtikulAnd(df, Min(found), ColRevenue)
               IN /\ df' = got.df
                  /\ load_error' = got.error
                  /\ UNCHANGED used_positional
          ELSE /\ df' = SelectCols(df, <<1, 2>>, <<TokArtikul, ColRevenue>>)
               /\ used_positional' = TRUE
               /\ UNCHANGED load_error
    /\ lphase' = "done"
    /\ UNCHANGED <<kind, df_raw, header_row>>
    /\ UNCHANGED <<aggVars, webVars>>

\* lines 158-172: the first column naming 'закупоч' or 'цена', or the first two
\* columns
ResolveCosts ==
    /\ lphase = "read"
    /\ kind = "costs"
    /\ LET found == ColsWith(df.columns, TokZakupoch) \cup ColsWith(df.columns, TokTsena)
       IN IF found # {}
          THEN LET got == SelectArtikulAnd(df, Min(found), TokZakupochnayaTsena)
               IN /\ df' = got.df
                  /\ load_error' = got.error
                  /\ UNCHANGED used_positional
          ELSE /\ df' = SelectCols(df, <<1, 2>>, <<TokArtikul, TokZakupochnayaTsena>>)
               /\ used_positional' = TRUE
               /\ UNCHANGED load_error
    /\ lphase' = "done"
    /\ UNCHANGED <<kind, df_raw, header_row>>
    /\ UNCHANGED <<aggVars, webVars>>

InitLoad ==
    /\ lphase = "start"
    /\ kind \in Kinds
    /\ df_raw \in SeqsUpTo([1..NumCols -> CellsOf(kind)], MaxSheetRows)
    /\ header_row = NaN
    /\ df = NoDf
    /\ load_error = <<>>
    /\ used_positional = FALSE
    /\ AggIdle
    /\ WebIdle

NextLoad ==
    \/ FindHeaderRow
    \/ ReadWithHeader
    \/ ReadFallback
    \/ ResolveOrders
    \/ ReadRevenue
    \/ ResolveRevenue
    \/ ResolveCosts

SpecLoad == InitLoad /\ [][NextLoad]_vars

-----------------------------------------------------------------------------
(* Properties of the loader (specification SpecLoad) *)

\* the 0-based indices of the scanned rows in which the fallback finds a label
\* of a required column
LabelRows ==
    {r \in 0..(Len(df_raw) - 1) :
        /\ r < FallbackRows
        /\ \E c \in 1..NumCols :
              /\ ~IsNa(df_raw[r + 1][c])
              /\ \E j \in DOMAIN RequiredCols(kind) :
                    Contains(NormCell(df_raw[r + 1][c]), RequiredCols(kind)[j])}

\* C8: a load that cannot resolve a required column fails with an error that
\* carries the missing columns and the columns present in the file, and never
\* takes two columns by position instead.
C8_SchemaError ==
    lphase = "done" =>
        /\ ~used_positional
        /\ (load_error # <<>> /\ load_error[1].type = "KeyError") =>
              /\ load_error[1].missing # <<>>
              /\ "available" \in DOMAIN load_error[1]

\* C10: the table read_excel_with_dynamic_header returns holds neither the
\* header row nor a row above it: with the header row found, every row kept
\* comes after it; in the fallback, no row kept is one in which a required
\* column's label was located.
C10_NoHeaderRowAsData ==
    (kind \in {"orders", "costs"} /\ lphase \in {"read", "done"} /\ load_error = <<>>) =>
        \A i \in DOMAIN df.rows :
            IF ~IsNa(header_row)
            THEN df.rows[i].src > header_row[1]
            ELSE df.rows[i].src \notin LabelRows

\* the first half of C10 alone: rows kept on the found-header path
C10_FoundPathOnly ==
    (kind \in {"orders", "costs"} /\ lphase \in {"read", "done"} /\ load_error = <<>>
        /\ ~IsNa(header_row)) =>
        \A i \in DOMAIN df.rows : df.rows[i].src > header_row[1]

-----------------------------------------------------------------------------
(* app.py: index(), two requests served concurrently over the one upload   *)
(* folder (specification SpecWeb)                                          *)

\* ALLOWED_EXTENSIONS (line 17)
AllowedExtensions == {<<"x", "l", "s", "x">>, <<"x", "l", "s">>}

\* filename.rsplit('.', 1)[1]: the text after the last dot
AfterLastDot(filename) ==
    LET dots == {i \in DOMAIN filename : filename[i] = "."}
    IN SubSeq(filename, Max(dots) + 1, Len(filename))

\* lines 19-20
allowed_file(filename) ==
    /\ \E i \in DOMAIN filename : filename[i] = "."
    /\ Lower(AfterLastDot(filename)) \in AllowedExtensions

\* werkzeug's secure_filename on names of letters, digits, dots and inner
\* spaces: the spaces become underscores
secure_filename(filename) == Replace(filename, " ", "_")

\* client file names: 'a.xlsx', 'b c.XLS', 'a.txt', 'readme', and none chosen
NameA == <<"a", ".", "x", "l", "s", "x">>
NameBC == <<"b", " ", "c", ".", "X", "L", "S">>
NameTxt == <<"a", ".", "t", "x", "t">>
NameNoDot == <<"r", "e", "a", "d", "m", "e">>
NameEmpty == <<>>

SlotSet == {Slots[i] : i \in DOMAIN Slots}

\* the requests a client can send: any three Excel names, and one of each kind
\* the validation turns away
ValidForms == {[method |-> "POST", files |-> f] : f \in [SlotSet -> {NameA, NameBC}]}

InvalidForms ==
    {[method |-> "GET", files |-> <<>>],
     [method |-> "POST", files |-> [s \in {"file_orders", "file_revenue"} |-> NameA]],
     [method |-> "POST", files |-> [s \in SlotSet |-> IF s = "file_revenue" THEN NameEmpty ELSE NameA]],
     [method |-> "POST", files |-> [s \in SlotSet |-> IF s = "file_costs" THEN NameTxt ELSE NameA]],
     [method |-> "POST", files |-> [s \in SlotSet |-> IF s = "file_orders" THEN NameNoDot ELSE NameA]]}

Forms == ValidForms \cup InvalidForms

\* lines 52-54: os.path.join(UPLOAD_FOLDER, secure_filename(file.filename))
PathOf(r, slot) == secure_filename(form[r].files[slot])

Exists(path) == path \in DOMAIN fs

\* the upload folder with the file at path written, or removed
Written(path, content) == [p \in DOMAIN fs \cup {path} |-> IF p = path THEN content ELSE fs[p]]
Removed(path) == [p \in DOMAIN fs \ {path} |-> fs[p]]

Upload(r, slot) == [owner |-> r, slot |-> slot]

Goto(r, label, i) ==
    /\ pc' = [pc EXCEPT ![r] = label]
    /\ idx' = [idx EXCEPT ![r] = i]

\* lines 24-48 and 93: a GET, or a POST the validation turns away, renders the
\* form; nothing has been saved
Validate(r) ==
    /\ pc[r] = "start"
    /\ LET f == form[r]
           complete == f.method = "POST" /\ SlotSet \subseteq DOMAIN f.files
           chosen == complete /\ \A s \in SlotSet : f.files[s] # NameEmpty
           allowed == chosen /\ \A s \in SlotSet : allowed_file(f.files[s])
       IN IF allowed THEN Goto(r, "save", 1) ELSE Goto(r, "done", 0)
    /\ UNCHANGED <<form, fs, input>>
    /\ UNCHANGED <<aggVars, loadVars>>

\* lines 56-58: file.save(path) writes the upload over whatever is at path
Save(r) ==
    /\ pc[r] = "save"
    /\ fs' = Written(PathOf(r, Slots[idx[r]]), Upload(r, Slots[idx[r]]))
    /\ IF idx[r] < 3 THEN Goto(r, "save", idx[r] + 1) ELSE Goto(r, "read", 1)
    /\ UNCHANGED <<form, input>>
    /\ UNCHANGED <<aggVars, loadVars>>

\* lines 56-58: a save raises (the folder cannot be written)
SaveRaises(r) ==
    /\ pc[r] = "save"
    /\ Goto(r, "except", 0)
    /\ UNCHANGED <<form, fs, input>>
    /\ UNCHANGED <<aggVars, loadVars>>

\* line 61: analyze_files opens the three paths in turn; a path that is gone
\* raises FileNotFoundError
Read(r) ==
    /\ pc[r] = "read"
    /\ LET slot == Slots[idx[r]]
           path == PathOf(r, slot)
       IN IF Exists(path)
          THEN /\ input' = [input EXCEPT ![r] =
                              [s \in DOMAIN @ \cup {slot} |-> IF s = slot THEN fs[path] ELSE @[s]]]
               /\ IF idx[r] < 3 THEN Goto(r, "read", idx[r] + 1) ELSE Goto(r, "to_excel", 0)
          ELSE /\ UNCHANGED input
               /\ Goto(r, "except", 0)
    /\ UNCHANGED <<form, fs>>
    /\ UNCHANGED <<aggVars, loadVars>>

\* lines 61-68: the analysis is done and the report serialized
ToExcel(r) ==
    /\ pc[r] = "to_excel"
    /\ Goto(r, "os_remove", 1)
    /\ UNCHANGED <<form, fs, input>>
    /\ UNCHANGED <<aggVars, loadVars>>

\* lines 61-68: the analysis (KeyError and others) or the serialization raises
AnalysisRaises(r) ==
    /\ pc[r] = "to_excel"
    /\ Goto(r, "except", 0)
    /\ UNCHANGED <<form, fs, input>>
    /\ UNCHANGED <<aggVars, loadVars>>

\* lines 71-73: os.remove(path), FileNotFoundError when the path is gone
OsRemove(r) ==
    /\ pc[r] = "os_remove"
    /\ LET path == PathOf(r, Slots[idx[r]])
       IN IF Exists(path)
          THEN /\ fs' = Removed(path)
               /\ IF idx[r] < 3 THEN Goto(r, "os_remove", idx[r] + 1) ELSE Goto(r, "send_file", 0)
          ELSE /\ UNCHANGED fs
               /\ Goto(r, "except", 0)
    /\ UNCHANGED <<form, input>>
    /\ UNCHANGED <<aggVars, loadVars>>

\* lines 76-81
SendFile(r) ==
    /\ pc[r] = "send_file"
    /\ Goto(r, "done", 0)
    /\ UNCHANGED <<form, fs, input>>
    /\ UNCHANGED <<aggVars, loadVars>>

\* lines 83-86: the exception is flashed, control falls to the cleanup loop
Except(r) ==
    /\ pc[r] = "except"
    /\ Goto(r, "exists", 1)
    /\ UNCHANGED <<form, fs, input>>
    /\ UNCHANGED <<aggVars, loadVars>>

\* lines 89-90: os.path.exists(path) for the next path of the loop
CleanupExists(r) ==
    /\ pc[r] = "exists"
    /\ IF Exists(PathOf(r, Slots[idx[r]]))
       THEN Goto(r, "cleanup_remove", idx[r])
       ELSE IF idx[r] < 3 THEN Goto(r, "exists", idx[r] + 1) ELSE Goto(r, "done", 0)
    /\ UNCHANGED <<form, fs, input>>
    /\ UNCHANGED <<aggVars, loadVars>>

\* line 91: os.remove(path); nothing catches the FileNotFoundError it raises
\* when the path went away after the check
CleanupRemove(r) ==
    /\ pc[r] = "cleanup_remove"
    /\ LET path == PathOf(r, Slots[idx[r]])
       IN IF Exists(path)
          THEN /\ fs' = Removed(path)
               /\ IF idx[r] < 3 THEN Goto(r, "exists", idx[r] + 1) ELSE Goto(r, "done", 0)
          ELSE /\ UNCHANGED fs
               /\ Goto(r, "crashed", 0)
    /\ UNCHANGED <<form, input>>
    /\ UNCHANGED <<aggVars, loadVars>>

InitWeb ==
    /\ pc = [r \in Requests |-> "start"]
    /\ form \in [Requests -> Forms]
    /\ fs = <<>>
    /\ input = [r \in Requests |-> <<>>]
    /\ idx = [r \in Requests |-> 0]
    /\ AggIdle
    /\ LoadIdle

NextWeb ==
    \E r \in Requests :
        \/ Validate(r)
        \/ Save(r)
        \/ SaveRaises(r)
        \/ Read(r)
        \/ ToExcel(r)
        \/ AnalysisRaises(r)
        \/ OsRemove(r)
        \/ SendFile(r)
        \/ Except(r)
        \/ CleanupExists(r)
        \/ CleanupRemove(r)

SpecWeb == InitWeb /\ [][NextWeb]_vars

-----------------------------------------------------------------------------
(* Properties of the upload handler (specification SpecWeb) *)

\* C6: requests never alias temporary storage: a step of a request changes or
\* removes no file but one it wrote itself (it overwrites nothing), and what
\* its analysis reads for a slot is its own upload for that slot.
C6_NoAliasing ==
    [][\A r \in Requests :
          (pc'[r] # pc[r] \/ idx'[r] # idx[r]) =>
              /\ \A p \in DOMAIN fs :
                    (p \notin DOMAIN fs' \/ fs'[p] # fs[p]) =>
                        (fs[p].owner = r /\ p \notin DOMAIN fs')
              /\ \A s \in DOMAIN input'[r] : input'[r][s] = Upload(r, s)]_vars

\* C7: once the handler of a request that saved files has returned, none of the
\* files it wrote is left in the upload folder.
C7_TempFilesDeleted ==
    \A r \in Requests :
        pc[r] \in {"done", "crashed"} => \A p \in DOMAIN fs : fs[p].owner # r

====
